---- MODULE Spec2Model ----
(***************************************************************************)
(* kcore: the TCP acceptor (pkg/server TCPServer) and the per-connection   *)
(* request/response loops (pkg/kafka and pkg/server                        *)
(* kafkaConnectionHandler.run) with the request dispatcher (kafkaApi).     *)
(*                                                                         *)
(* Bytes are naturals 0..255, byte strings are sequences of them.  A       *)
(* connection is a byte stream from the client to the handler (inbuf) and  *)
(* the list of Write calls the handler made on it (written).               *)
(***************************************************************************)
EXTENDS Integers, Sequences, FiniteSets, TLC

\* ------------------------------------------------------------------ bounds
\* frames one client sends on a connection handed directly to a handler
MaxFrames == 2
\* listening sockets net.Listen creates, over all Start calls
MaxListens == 1

\* ------------------------------------------------------- program constants
ApiVersionsApiKey == 18
\* a request key the codec decodes and kafkaApi.dispatch has no case for
MetadataApiKey == 3
ApiVersionsRequestVersion == 3
\* size of the length prefix read by run()
SizeLen == 4
\* pkg/server run(): Length: int32(len(resp) + 8)
HeaderExtra == 8

\* two clients, one TCPServer
Conns == {1, 2}
Servers == {1}
Listeners == 1..MaxListens

\* ------------------------------------------------------------ byte helpers
Min(a, b) == IF a < b THEN a ELSE b

Take(s, n) == SubSeq(s, 1, Min(n, Len(s)))

Drop(s, n) == SubSeq(s, Min(n, Len(s)) + 1, Len(s))

\* binary.BigEndian.PutUint16 / PutUint32
BE16(v) == << (v \div 256) % 256, v % 256 >>

BE32(v) == << (v \div 16777216) % 256, (v \div 65536) % 256, (v \div 256) % 256, v % 256 >>

\* binary.BigEndian.Uint16 / Uint32
Uint16(b) == b[1] * 256 + b[2]

Uint32(b) == b[1] * 16777216 + b[2] * 65536 + b[3] * 256 + b[4]

\* ----------------------------------------------------------- the codec
\* Request payload: key(2) version(2) correlationId(4) clientId(2+n) body
ReqHeaderLen == 10

KnownKeys == {ApiVersionsApiKey, MetadataApiKey}

BodyTypeOf(key) == IF key = ApiVersionsApiKey THEN "ApiVersionsRequest" ELSE "MetadataRequest"

\* ProtocolBody.APIKey(): every body type reports its own key
APIKey(body) == body.key

EncodeRequest(key, version, corr) == BE16(key) \o BE16(version) \o BE32(corr) \o BE16(0)

\* sarama.Request.Decode on the payload (without length prefix)
DecodeRequest(raw) ==
    IF Len(raw) < ReqHeaderLen THEN [err |-> "insufficient data"]
    ELSE LET key == Uint16(SubSeq(raw, 1, 2))
             cl  == Uint16(SubSeq(raw, 9, 10))
         IN IF key \notin KnownKeys THEN [err |-> "unknown request key"]
            ELSE IF Len(raw) < ReqHeaderLen + cl THEN [err |-> "insufficient data"]
            ELSE [err |-> "",
                  CorrelationID |-> Uint32(SubSeq(raw, 5, 8)),
                  ClientID |-> SubSeq(raw, 11, 10 + cl),
                  Body |-> [type |-> BodyTypeOf(key), key |-> key,
                           Version |-> Uint16(SubSeq(raw, 3, 4))]]

\* ApiVersionsResponse body: errorCode(2) count(4) {apiKey(2) min(2) max(2)}*
RECURSIVE EncodeApiKeys(_)
EncodeApiKeys(ks) ==
    IF ks = << >> THEN << >>
    ELSE BE16(Head(ks).ApiKey) \o BE16(Head(ks).MinVersion) \o BE16(Head(ks).MaxVersion)
         \o EncodeApiKeys(Tail(ks))

EncodeBody(body) == BE16(body.ErrorCode) \o BE32(Len(body.ApiKeys)) \o EncodeApiKeys(body.ApiKeys)

\* sarama.Encode(*sarama.Response): u32 length | i32 correlationId | body
EncodeResponse(resp) ==
    LET b == EncodeBody(resp.Body)
    IN BE32(4 + Len(b)) \o BE32(resp.CorrelationID) \o b

\* what a client reads back from one response frame
DecodeResponseHeader(frame) ==
    [Length |-> Uint32(SubSeq(frame, 1, 4)), CorrelationID |-> Uint32(SubSeq(frame, 5, 8))]

\* the entries of an ApiVersionsResponse body, read back from its bytes
RECURSIVE DecodeApiKeys(_, _)
DecodeApiKeys(b, n) ==
    IF n = 0 \/ Len(b) < 6 THEN << >>
    ELSE << [ApiKey |-> Uint16(SubSeq(b, 1, 2)), MinVersion |-> Uint16(SubSeq(b, 3, 4)),
             MaxVersion |-> Uint16(SubSeq(b, 5, 6))] >> \o DecodeApiKeys(Drop(b, 6), n - 1)

\* the response a client decodes from one response frame
DecodeResponse(frame) ==
    [CorrelationID |-> Uint32(SubSeq(frame, 5, 8)),
     ErrorCode |-> Uint16(SubSeq(frame, 9, 10)),
     ApiKeys |-> DecodeApiKeys(Drop(frame, 14), Uint32(SubSeq(frame, 11, 14)))]

\* ------------------------------------------------------------- kafkaApi
\* mutant: the answer repeats the version the client asked with
HandleApiVersions_EchoVersion(correlationId, clientId, request) ==
    [ApiKeys |-> << [ApiKey |-> ApiVersionsApiKey,
                     MinVersion |-> ApiVersionsRequestVersion,
                     MaxVersion |-> request.Version] >>,
     Version |-> request.Version,
     ErrorCode |-> 0]

\* kafkaApi.HandleApiVersions: a static answer, never an error
HandleApiVersions(correlationId, clientId, request) ==
    [ApiKeys |-> << [ApiKey |-> ApiVersionsApiKey,
                     MinVersion |-> ApiVersionsRequestVersion,
                     MaxVersion |-> ApiVersionsRequestVersion] >>,
     Version |-> ApiVersionsRequestVersion,
     ErrorCode |-> 0]

\* kafkaApi.HandleApiVersions, its second result: always nil
HandleApiVersionsErr(correlationId, clientId, request) == ""

\* mutant: the response header is built without the request's identifier
MakeResponse_ZeroCorr(req, responseBody) == [CorrelationID |-> 0, Body |-> responseBody]

\* the Response literal dispatch returns
MakeResponse(req, responseBody) == [CorrelationID |-> req.CorrelationID, Body |-> responseBody]

\* mutant: the switch has no default case, every key gets the ApiVersions answer
dispatch_NoDefault(req) ==
    [err |-> "",
     resp |-> [CorrelationID |-> req.CorrelationID,
               Body |-> HandleApiVersions(req.CorrelationID, req.ClientID, req.Body)]]

\* mutant: the case of the switch names the wrong key and passes the body on
\* without the type assertion
dispatch_WrongKey(req) ==
    IF APIKey(req.Body) = MetadataApiKey
    THEN [err |-> "",
          resp |-> MakeResponse(req,
                       HandleApiVersions(req.CorrelationID, req.ClientID, req.Body))]
    ELSE [err |-> "no handler found for request"]

\* mutant: the result of the type assertion is not tested
dispatch_Unchecked(req) ==
    IF APIKey(req.Body) = ApiVersionsApiKey
    THEN [err |-> "",
          resp |-> MakeResponse(req,
                       HandleApiVersions(req.CorrelationID, req.ClientID, req.Body))]
    ELSE [err |-> "no handler found for request"]

\* kafkaApi.dispatch
dispatch(req) ==
    IF APIKey(req.Body) = ApiVersionsApiKey
    THEN IF req.Body.type # "ApiVersionsRequest"
         THEN [err |-> "invalid request type"]
         ELSE IF HandleApiVersionsErr(req.CorrelationID, req.ClientID, req.Body) # ""
         THEN [err |-> "error while handling ApiVersions request"]
         ELSE [err |-> "",
               resp |-> MakeResponse(req,
                            HandleApiVersions(req.CorrelationID, req.ClientID, req.Body))]
    ELSE [err |-> "no handler found for request"]

\* ------------------------------------------------------------ the clients
FrameKinds == {"apiversions", "metadata", "short", "truncated", "empty"}

\* the frames sent to the TCP server: answered, refused by dispatch,
\* undecodable, shorter than their length prefix declares
ServedKinds == {"apiversions", "metadata", "short", "truncated"}

\* correlation identifier of the i-th request of connection c (all distinct)
CorrOf(c, i) == 16 * c + i

\* one frame as the client puts it on the wire
Frame(kind, corr) ==
    CASE kind = "apiversions" ->
            BE32(ReqHeaderLen) \o EncodeRequest(ApiVersionsApiKey, ApiVersionsRequestVersion, corr)
      [] kind = "metadata" ->
            BE32(ReqHeaderLen) \o EncodeRequest(MetadataApiKey, 1, corr)
      [] kind = "short" -> BE32(2) \o BE16(ApiVersionsApiKey)
      [] kind = "truncated" -> BE32(ReqHeaderLen) \o BE16(ApiVersionsApiKey)
      [] OTHER -> BE32(0)

\* where the network may cut a frame in two pieces: inside the length prefix,
\* after it, and inside the payload
CutPoints == {2, 4, 9}

\* frames of a connection handed directly to a handler are cut; the others
\* arrive whole
FirstPieces(frame, direct) ==
    {Len(frame)} \cup {k \in CutPoints : direct /\ k < Len(frame)}

\* ------------------------------------------------------------------ state
VARIABLES
    kind,        \* which package's handler the factory builds: "kafka" or "server"
    shared,      \* TRUE when the factory returns one handler instance every time
    ctxDone,     \* field ctx of each handler instance: TRUE once it is cancelled
    cst,         \* client end of connection c: idle, refused, open, closed, reset
    clis,        \* listener connection c dialled (0: handed directly to a handler)
    inbuf,       \* bytes that arrived on c and no Read has taken yet
    pendingOut,  \* rest of the frame the client of c is sending
    sent,        \* frames the client of c began, as [kind, corr]
    written,     \* byte strings of the successful Write calls on c, in order
    closeCount,  \* number of Close calls on the server end of c
    pc,          \* position of the goroutine spawned for connection g
    inst,        \* handler instance goroutine g runs (0: none yet)
    hconn,       \* field conn of each handler instance (0: nil)
    deferConn,   \* connection the deferred Close of g's run() is bound to
    reqSize,     \* run(): reqSize
    buffer,      \* run(): buffer after the body read
    req,         \* Handle(): the decoded request
    resp,        \* Handle(): the response returned by dispatch
    encoded,     \* bytes about to be written
    exit,        \* which return statement ended run() of g ("" while running)
    nread,       \* requests fully read (prefix and body) from connection c
    received,    \* payloads goroutine g passed to its request handler
    sl,          \* TCPServer.l of each server (0: nil)
    startPc, startL, startRet,   \* a Start call in progress, its local l, its last result
    stopPc, stopRet,             \* a Stop call in progress, its last result
    port,        \* listener bound to the address (0: free)
    lst,         \* listener socket: unused, open, closed
    backlog,     \* connections established on a listener and not yet accepted
    aloop,       \* accept loop goroutine of a listener: none, accepting, spawning, exited
    aconn,       \* connection the accept loop just accepted
    aexit        \* why the accept loop ended: "", closed, error

connVars == <<cst, clis, inbuf, pendingOut, sent, written, closeCount>>
handlerVars == <<pc, inst, hconn, deferConn, reqSize, buffer, req, resp, encoded, exit, nread, received>>
serverVars == <<sl, startPc, startL, startRet, stopPc, stopRet, port, lst, backlog, aloop, aconn, aexit>>
vars == <<kind, shared, ctxDone, connVars, handlerVars, serverVars>>

Instances == {0} \cup Conns

NoReq == [err |-> "none"]

\* ---------------------------------------------------------------- clients
\* frames the client of c may send: a client of the TCP server sends one
FrameLimit(c) == IF clis[c] = 0 THEN MaxFrames ELSE 1

\* the client starts a frame and its first k bytes arrive; a client that
\* truncated a frame sends nothing after it
ClientSend(c, fk, k) ==
    /\ cst[c] = "open"
    /\ closeCount[c] = 0
    /\ pendingOut[c] = << >>
    /\ Len(sent[c]) < FrameLimit(c)
    /\ clis[c] # 0 => fk \in ServedKinds
    /\ \A j \in 1..Len(sent[c]) : sent[c][j].kind # "truncated"
    /\ LET corr == CorrOf(c, Len(sent[c]) + 1)
           frame == Frame(fk, corr)
       IN /\ k \in FirstPieces(frame, clis[c] = 0)
          /\ inbuf' = [inbuf EXCEPT ![c] = @ \o Take(frame, k)]
          /\ pendingOut' = [pendingOut EXCEPT ![c] = Drop(frame, k)]
          /\ sent' = [sent EXCEPT ![c] = Append(@, [kind |-> fk, corr |-> corr])]
    /\ UNCHANGED <<kind, shared, ctxDone, cst, clis, written, closeCount, handlerVars, serverVars>>

\* the rest of the frame arrives
ClientFlush(c) ==
    /\ cst[c] = "open"
    /\ closeCount[c] = 0
    /\ pendingOut[c] # << >>
    /\ inbuf' = [inbuf EXCEPT ![c] = @ \o pendingOut[c]]
    /\ pendingOut' = [pendingOut EXCEPT ![c] = << >>]
    /\ UNCHANGED <<kind, shared, ctxDone, cst, clis, sent, written, closeCount, handlerVars, serverVars>>

\* the client closes its end: the handler sees end-of-stream after the bytes
\* that arrived; the rest of a frame it was sending is never sent
ClientClose(c) ==
    /\ cst[c] = "open"
    /\ cst' = [cst EXCEPT ![c] = "closed"]
    /\ UNCHANGED <<kind, shared, ctxDone, clis, inbuf, pendingOut, sent, written, closeCount,
                   handlerVars, serverVars>>

\* the client resets the connection: reads and writes fail from now on
ClientReset(c) ==
    /\ cst[c] = "open"
    /\ cst' = [cst EXCEPT ![c] = "reset"]
    /\ pendingOut' = [pendingOut EXCEPT ![c] = << >>]
    /\ inbuf' = [inbuf EXCEPT ![c] = << >>]
    /\ UNCHANGED <<kind, shared, ctxDone, clis, sent, written, closeCount, handlerVars, serverVars>>

\* ------------------------------------------------------- net.Conn Read/Write
\* Read blocks while nothing has arrived and the peer is still there
CanRead(k, n) ==
    \/ closeCount[k] > 0
    \/ n = 0
    \/ cst[k] \in {"closed", "reset"}
    \/ inbuf[k] # << >>

\* the (n, err) and bytes one Read call with a buffer of n bytes returns
ReadResult(k, n) ==
    IF closeCount[k] > 0 THEN [n |-> 0, err |-> "closed", data |-> << >>]
    ELSE IF n = 0 THEN [n |-> 0, err |-> "", data |-> << >>]
    ELSE IF cst[k] = "reset" THEN [n |-> 0, err |-> "reset", data |-> << >>]
    ELSE IF inbuf[k] # << >>
         THEN [n |-> Min(n, Len(inbuf[k])), err |-> "", data |-> Take(inbuf[k], n)]
    ELSE [n |-> 0, err |-> "EOF", data |-> << >>]

\* whether a Write call may succeed / may fail
WriteMaySucceed(k) == closeCount[k] = 0 /\ cst[k] # "reset"

WriteMayFail(k) == closeCount[k] > 0 \/ cst[k] \in {"closed", "reset"}

\* ------------------------------------------- kafkaConnectionHandler (both)
\* the connection the handler instance of goroutine g holds in its field conn
Cur(g) == hconn[inst[g]]

\* mutant: run() returns without the deferred Close
Return_NoClose(g, why) ==
    /\ pc' = [pc EXCEPT ![g] = "Closed"]
    /\ exit' = [exit EXCEPT ![g] = why]
    /\ UNCHANGED closeCount

\* mutant: the error path closes every connection the process holds
Return_CloseAll(g, why) ==
    /\ pc' = [pc EXCEPT ![g] = "Closed"]
    /\ exit' = [exit EXCEPT ![g] = why]
    /\ closeCount' = [c \in Conns |-> closeCount[c] + 1]

\* mutant: the failed check logs and goes on with the next iteration
Return_Continue(g, why) ==
    /\ pc' = [pc EXCEPT ![g] = "ReadingSize"]
    /\ UNCHANGED <<exit, closeCount>>

\* a return statement of run(): the deferred Close runs on the connection
\* the defer statement was bound to
Return(g, why) ==
    /\ pc' = [pc EXCEPT ![g] = "Closed"]
    /\ exit' = [exit EXCEPT ![g] = why]
    /\ closeCount' = [closeCount EXCEPT ![deferConn[g]] = @ + 1]

\* mutant: HandleConnection starts run() in a goroutine of its own and returns
HandleConnection_Detached(g) ==
    /\ pc[g] = "Start"
    /\ hconn' = [hconn EXCEPT ![inst[g]] = g]
    /\ deferConn' = [deferConn EXCEPT ![g] = g]
    /\ pc' = [pc EXCEPT ![g] = "Closed"]
    /\ UNCHANGED <<kind, shared, ctxDone, connVars, inst, reqSize, buffer, req, resp,
                   encoded, exit, nread, received, serverVars>>

\* HandleConnection: h.conn = conn, then run() up to its first Read; the
\* defer statement binds the connection held in h.conn
HandleConnection(g) ==
    /\ pc[g] = "Start"
    /\ hconn' = [hconn EXCEPT ![inst[g]] = g]
    /\ deferConn' = [deferConn EXCEPT ![g] = g]
    /\ pc' = [pc EXCEPT ![g] = "ReadingSize"]
    /\ UNCHANGED <<kind, shared, ctxDone, connVars, inst, reqSize, buffer, req, resp,
                   encoded, exit, nread, received, serverVars>>

\* ---------------------------------------- pkg/kafka kafkaConnectionHandler
\* mutant: end-of-stream on the length prefix is retried instead of returned
runReadSize_EofRetried(g) ==
    /\ kind = "kafka"
    /\ pc[g] = "ReadingSize"
    /\ CanRead(Cur(g), SizeLen)
    /\ LET k == Cur(g)
           r == ReadResult(k, SizeLen)
       IN /\ inbuf' = [inbuf EXCEPT ![k] = Drop(@, r.n)]
          /\ IF r.err = "EOF" THEN UNCHANGED <<pc, exit, closeCount, reqSize>>
             ELSE IF r.err # "" THEN Return(g, "size_read_error") /\ UNCHANGED reqSize
             ELSE IF r.n # SizeLen THEN Return(g, "size_short") /\ UNCHANGED reqSize
             ELSE /\ reqSize' = [reqSize EXCEPT ![g] = Uint32(r.data)]
                  /\ pc' = [pc EXCEPT ![g] = "ReadingBody"]
                  /\ UNCHANGED <<exit, closeCount>>
    /\ UNCHANGED <<kind, shared, ctxDone, cst, clis, pendingOut, sent, written, inst, hconn, deferConn,
                   buffer, req, resp, encoded, nread, received, serverVars>>

\* run(): one Read into a 4-byte buffer, then the checks on err and n
runReadSize(g) ==
    /\ kind = "kafka"
    /\ pc[g] = "ReadingSize"
    /\ CanRead(Cur(g), SizeLen)
    /\ LET k == Cur(g)
           r == ReadResult(k, SizeLen)
       IN /\ inbuf' = [inbuf EXCEPT ![k] = Drop(@, r.n)]
          /\ IF r.err = "EOF" THEN Return(g, "eof") /\ UNCHANGED reqSize
             ELSE IF r.err # "" THEN Return(g, "size_read_error") /\ UNCHANGED reqSize
             ELSE IF r.n # SizeLen THEN Return(g, "size_short") /\ UNCHANGED reqSize
             ELSE /\ reqSize' = [reqSize EXCEPT ![g] = Uint32(r.data)]
                  /\ pc' = [pc EXCEPT ![g] = "ReadingBody"]
                  /\ UNCHANGED <<exit, closeCount>>
    /\ UNCHANGED <<kind, shared, ctxDone, cst, clis, pendingOut, sent, written, inst, hconn, deferConn,
                   buffer, req, resp, encoded, nread, received, serverVars>>

\* mutant: Handle drops the decode error and returns an empty response
Handle_DecodeErrorDropped(encodedRequest) ==
    LET r == DecodeRequest(encodedRequest)
    IN IF r.err # "" THEN [err |-> "", req |-> NoReq, resp |-> NoReq, out |-> << >>]
       ELSE LET d == dispatch(r)
            IN IF d.err # ""
               THEN [err |-> "dispatch_error", req |-> r, resp |-> NoReq, out |-> << >>]
               ELSE [err |-> "", req |-> r, resp |-> d.resp, out |-> EncodeResponse(d.resp)]

\* kafkaApi.Handle after the decoding: dispatch and encode
HandleDecoded(r) ==
    LET d == dispatch(r)
    IN IF d.err # ""
       THEN [err |-> "dispatch_error", req |-> r, resp |-> NoReq, out |-> << >>]
       ELSE [err |-> "", req |-> r, resp |-> d.resp, out |-> EncodeResponse(d.resp)]

\* kafkaApi.Handle: decode, dispatch, encode; the first error is returned
Handle(encodedRequest) ==
    LET r == DecodeRequest(encodedRequest)
    IN IF r.err # "" THEN [err |-> "decode_error", req |-> NoReq, resp |-> NoReq, out |-> << >>]
       ELSE HandleDecoded(r)

\* mutant: the number of bytes the body Read returned is not compared with
\* the declared length
runReadBody_NoLengthCheck(g) ==
    /\ kind = "kafka"
    /\ pc[g] = "ReadingBody"
    /\ CanRead(Cur(g), reqSize[g])
    /\ LET k == Cur(g)
           r == ReadResult(k, reqSize[g])
       IN /\ inbuf' = [inbuf EXCEPT ![k] = Drop(@, r.n)]
          /\ IF r.err # ""
             THEN /\ Return(g, "body_read_error")
                  /\ UNCHANGED <<buffer, nread, received, req, resp, encoded>>
             ELSE LET h == Handle(r.data)
                  IN /\ buffer' = [buffer EXCEPT ![g] = r.data]
                     /\ nread' = [nread EXCEPT ![k] = @ + 1]
                     /\ received' = [received EXCEPT ![g] = Append(@, r.data)]
                     /\ req' = [req EXCEPT ![g] = h.req]
                     /\ resp' = [resp EXCEPT ![g] = h.resp]
                     /\ encoded' = [encoded EXCEPT ![g] = h.out]
                     /\ IF h.err # ""
                        THEN Return(g, h.err)
                        ELSE /\ pc' = [pc EXCEPT ![g] = "Writing"]
                             /\ UNCHANGED <<exit, closeCount>>
    /\ UNCHANGED <<kind, shared, ctxDone, cst, clis, pendingOut, sent, written, inst, hconn, deferConn,
                   reqSize, serverVars>>

\* run(): one Read into a reqSize-byte buffer, the checks on err and n, then
\* requestHandler.Handle(buffer); every error returns
runReadBody(g) ==
    /\ kind = "kafka"
    /\ pc[g] = "ReadingBody"
    /\ CanRead(Cur(g), reqSize[g])
    /\ LET k == Cur(g)
           r == ReadResult(k, reqSize[g])
       IN /\ inbuf' = [inbuf EXCEPT ![k] = Drop(@, r.n)]
          /\ IF r.err # ""
             THEN /\ Return(g, "body_read_error")
                  /\ UNCHANGED <<buffer, nread, received, req, resp, encoded>>
             ELSE IF r.n # reqSize[g]
             THEN /\ Return(g, "body_short")
                  /\ UNCHANGED <<buffer, nread, received, req, resp, encoded>>
             ELSE LET h == Handle(r.data)
                  IN /\ buffer' = [buffer EXCEPT ![g] = r.data]
                     /\ nread' = [nread EXCEPT ![k] = @ + 1]
                     /\ received' = [received EXCEPT ![g] = Append(@, r.data)]
                     /\ req' = [req EXCEPT ![g] = h.req]
                     /\ resp' = [resp EXCEPT ![g] = h.resp]
                     /\ encoded' = [encoded EXCEPT ![g] = h.out]
                     /\ IF h.err # ""
                        THEN Return(g, h.err)
                        ELSE /\ pc' = [pc EXCEPT ![g] = "Writing"]
                             /\ UNCHANGED <<exit, closeCount>>
    /\ UNCHANGED <<kind, shared, ctxDone, cst, clis, pendingOut, sent, written, inst, hconn, deferConn,
                   reqSize, serverVars>>

\* mutant: the loop goes on to the next request without writing the response
runWrite_Dropped(g) ==
    /\ kind = "kafka"
    /\ pc[g] = "Writing"
    /\ pc' = [pc EXCEPT ![g] = "ReadingSize"]
    /\ UNCHANGED <<kind, shared, ctxDone, connVars, inst, hconn, deferConn, reqSize, buffer, req, resp,
                   encoded, exit, nread, received, serverVars>>

\* mutant: the result of Write is ignored, the loop goes on
runWrite_ErrorIgnored(g) ==
    /\ kind = "kafka"
    /\ pc[g] = "Writing"
    /\ LET k == Cur(g)
       IN \/ /\ WriteMaySucceed(k)
             /\ written' = [written EXCEPT ![k] = Append(@, encoded[g])]
          \/ /\ WriteMayFail(k)
             /\ UNCHANGED written
    /\ pc' = [pc EXCEPT ![g] = "ReadingSize"]
    /\ UNCHANGED <<kind, shared, ctxDone, cst, clis, inbuf, pendingOut, sent, closeCount, inst, hconn,
                   deferConn, reqSize, buffer, req, resp, encoded, exit, nread, received,
                   serverVars>>

\* mutant: the response is put in front of the responses already written
runWrite_Reordered(g) ==
    /\ kind = "kafka"
    /\ pc[g] = "Writing"
    /\ LET k == Cur(g)
       IN \/ /\ WriteMaySucceed(k)
             /\ written' = [written EXCEPT ![k] = << encoded[g] >> \o @]
             /\ pc' = [pc EXCEPT ![g] = "ReadingSize"]
             /\ UNCHANGED <<exit, closeCount>>
          \/ /\ WriteMayFail(k)
             /\ Return(g, "write_error")
             /\ UNCHANGED written
    /\ UNCHANGED <<kind, shared, ctxDone, cst, clis, inbuf, pendingOut, sent, inst, hconn, deferConn,
                   reqSize, buffer, req, resp, encoded, nread, received, serverVars>>

\* run(): h.conn.Write(resp); on an error return, else the next iteration
runWrite(g) ==
    /\ kind = "kafka"
    /\ pc[g] = "Writing"
    /\ LET k == Cur(g)
       IN \/ /\ WriteMaySucceed(k)
             /\ written' = [written EXCEPT ![k] = Append(@, encoded[g])]
             /\ pc' = [pc EXCEPT ![g] = "ReadingSize"]
             /\ UNCHANGED <<exit, closeCount>>
          \/ /\ WriteMayFail(k)
             /\ Return(g, "write_error")
             /\ UNCHANGED written
    /\ UNCHANGED <<kind, shared, ctxDone, cst, clis, inbuf, pendingOut, sent, inst, hconn, deferConn,
                   reqSize, buffer, req, resp, encoded, nread, received, serverVars>>

\* --------------------------------------- pkg/server kafkaConnectionHandler
\* metadataManager.HandleRequest: the encoded ApiVersions body, whatever the request
HandleRequest(r) ==
    EncodeBody([ApiKeys |-> << [ApiKey |-> ApiVersionsApiKey, MinVersion |-> 0,
                                MaxVersion |-> 3] >>,
                Version |-> 3, ErrorCode |-> 0])

\* run(): the ResponseHeaderStruct literal
ResponseHeader(r, body) == [CorrelationID |-> r.CorrelationID, Length |-> Len(body) + HeaderExtra]

\* sarama.Encode(&respHeader): u32 length | i32 correlationId
EncodeResponseHeader(h) == BE32(h.Length) \o BE32(h.CorrelationID)

\* run(): one Read into a 4-byte buffer; any error, end-of-stream included, returns
srvReadSize(g) ==
    /\ kind = "server"
    /\ pc[g] = "ReadingSize"
    /\ CanRead(Cur(g), SizeLen)
    /\ LET k == Cur(g)
           r == ReadResult(k, SizeLen)
       IN /\ inbuf' = [inbuf EXCEPT ![k] = Drop(@, r.n)]
          /\ IF r.err # "" THEN Return(g, "size_read_error") /\ UNCHANGED reqSize
             ELSE IF r.n # SizeLen THEN Return(g, "size_short") /\ UNCHANGED reqSize
             ELSE /\ reqSize' = [reqSize EXCEPT ![g] = Uint32(r.data)]
                  /\ pc' = [pc EXCEPT ![g] = "ReadingBody"]
                  /\ UNCHANGED <<exit, closeCount>>
    /\ UNCHANGED <<kind, shared, ctxDone, cst, clis, pendingOut, sent, written, inst, hconn, deferConn,
                   buffer, req, resp, encoded, nread, received, serverVars>>

\* run(): one Read into a reqSize-byte buffer, the checks on err and n, then
\* req.Decode, HandleRequest, the response header and its encoding
srvReadBody(g) ==
    /\ kind = "server"
    /\ pc[g] = "ReadingBody"
    /\ CanRead(Cur(g), reqSize[g])
    /\ LET k == Cur(g)
           r == ReadResult(k, reqSize[g])
           d == DecodeRequest(r.data)
       IN /\ inbuf' = [inbuf EXCEPT ![k] = Drop(@, r.n)]
          /\ IF r.err # ""
             THEN /\ Return(g, "body_read_error")
                  /\ UNCHANGED <<buffer, nread, received, req, resp, encoded>>
             ELSE IF r.n # reqSize[g]
             THEN /\ Return(g, "body_short")
                  /\ UNCHANGED <<buffer, nread, received, req, resp, encoded>>
             ELSE /\ buffer' = [buffer EXCEPT ![g] = r.data]
                  /\ nread' = [nread EXCEPT ![k] = @ + 1]
                  /\ received' = [received EXCEPT ![g] = Append(@, r.data)]
                  /\ IF d.err # ""
                     THEN /\ Return(g, "decode_error")
                          /\ UNCHANGED <<req, resp, encoded>>
                     ELSE LET body == HandleRequest(d)
                          IN /\ req' = [req EXCEPT ![g] = d]
                             /\ resp' = [resp EXCEPT ![g] = [err |-> "", raw |-> body]]
                             /\ encoded' = [encoded EXCEPT ![g] =
                                                EncodeResponseHeader(ResponseHeader(d, body))]
                             /\ pc' = [pc EXCEPT ![g] = "Writing"]
                             /\ UNCHANGED <<exit, closeCount>>
    /\ UNCHANGED <<kind, shared, ctxDone, cst, clis, pendingOut, sent, written, inst, hconn, deferConn,
                   reqSize, serverVars>>

\* run(): h.conn.Write(headerBuf), its result dropped
srvWriteHeader(g) ==
    /\ kind = "server"
    /\ pc[g] = "Writing"
    /\ LET k == Cur(g)
       IN \/ /\ WriteMaySucceed(k)
             /\ written' = [written EXCEPT ![k] = Append(@, encoded[g])]
          \/ /\ WriteMayFail(k)
             /\ UNCHANGED written
    /\ pc' = [pc EXCEPT ![g] = "WritingBody"]
    /\ UNCHANGED <<kind, shared, ctxDone, cst, clis, inbuf, pendingOut, sent, closeCount, inst, hconn,
                   deferConn, reqSize, buffer, req, resp, encoded, exit, nread, received,
                   serverVars>>

\* run(): h.conn.Write(resp), its result dropped, then the next iteration
srvWriteBody(g) ==
    /\ kind = "server"
    /\ pc[g] = "WritingBody"
    /\ LET k == Cur(g)
       IN \/ /\ WriteMaySucceed(k)
             /\ written' = [written EXCEPT ![k] = Append(@, resp[g].raw)]
          \/ /\ WriteMayFail(k)
             /\ UNCHANGED written
    /\ pc' = [pc EXCEPT ![g] = "ReadingSize"]
    /\ UNCHANGED <<kind, shared, ctxDone, cst, clis, inbuf, pendingOut, sent, closeCount, inst, hconn,
                   deferConn, reqSize, buffer, req, resp, encoded, exit, nread, received,
                   serverVars>>

\* ------------------------------------------------- handler alone (as tests)
\* a handler built by its constructor and given connection 1 directly
InitCommon ==
    /\ ctxDone = [i \in Instances |-> FALSE]
    /\ inbuf = [c \in Conns |-> << >>]
    /\ pendingOut = [c \in Conns |-> << >>]
    /\ sent = [c \in Conns |-> << >>]
    /\ written = [c \in Conns |-> << >>]
    /\ closeCount = [c \in Conns |-> 0]
    /\ clis = [c \in Conns |-> 0]
    /\ hconn = [i \in Instances |-> 0]
    /\ deferConn = [g \in Conns |-> 0]
    /\ reqSize = [g \in Conns |-> 0]
    /\ buffer = [g \in Conns |-> << >>]
    /\ req = [g \in Conns |-> NoReq]
    /\ resp = [g \in Conns |-> NoReq]
    /\ encoded = [g \in Conns |-> << >>]
    /\ exit = [g \in Conns |-> ""]
    /\ nread = [c \in Conns |-> 0]
    /\ received = [g \in Conns |-> << >>]
    /\ sl = [s \in Servers |-> 0]
    /\ startPc = [s \in Servers |-> "idle"]
    /\ startL = [s \in Servers |-> 0]
    /\ startRet = [s \in Servers |-> "none"]
    /\ stopPc = [s \in Servers |-> "idle"]
    /\ stopRet = [s \in Servers |-> "none"]
    /\ port = 0
    /\ lst = [l \in Listeners |-> "unused"]
    /\ backlog = [l \in Listeners |-> << >>]
    /\ aloop = [l \in Listeners |-> "none"]
    /\ aconn = [l \in Listeners |-> 0]
    /\ aexit = [l \in Listeners |-> ""]

InitHandler ==
    /\ kind \in {"kafka", "server"}
    /\ shared = FALSE
    /\ InitCommon
    /\ cst = [c \in Conns |-> IF c = 1 THEN "open" ELSE "idle"]
    /\ pc = [g \in Conns |-> IF g = 1 THEN "Start" ELSE "none"]
    /\ inst = [g \in Conns |-> IF g = 1 THEN 1 ELSE 0]

\* longest frame a client sends
MaxFrameLen == SizeLen + ReqHeaderLen

\* a client of a handler: frames in one or two pieces, close, reset
ClientNext ==
    \E c \in Conns :
        \/ \E fk \in FrameKinds, k \in 1..MaxFrameLen : ClientSend(c, fk, k)
        \/ ClientFlush(c)
        \/ ClientClose(c)
        \/ ClientReset(c)

\* a client of the TCP server: one whole frame, then close
ServedClientNext ==
    \E c \in Conns :
        \/ \E fk \in ServedKinds : ClientSend(c, fk, Len(Frame(fk, 0)))
        \/ ClientClose(c)

KafkaHandlerNext ==
    \E g \in Conns :
        \/ HandleConnection(g)
        \/ runReadSize(g)
        \/ runReadBody(g)
        \/ runWrite(g)

SrvHandlerNext ==
    \E g \in Conns :
        \/ srvReadSize(g)
        \/ srvReadBody(g)
        \/ srvWriteHeader(g)
        \/ srvWriteBody(g)

NextHandler == ClientNext \/ KafkaHandlerNext \/ SrvHandlerNext

SpecHandler == InitHandler /\ [][NextHandler]_vars

\* the goroutine running the pkg/kafka handler takes its next step whenever
\* its Read or Write can return
FairSpecHandler ==
    /\ SpecHandler
    /\ \A g \in Conns :
          /\ WF_vars(HandleConnection(g)) /\ WF_vars(runReadSize(g))
          /\ WF_vars(runReadBody(g)) /\ WF_vars(runWrite(g))

\* ------------------------------------------------ the cancellation context
\* h.cancel(), the CancelFunc NewKafkaConnectionHandler stores in the handler
\* of goroutine g, is called: h.ctx is done from then on. No code of the
\* repository calls it; run() is given no other way to be stopped.
Cancel(g) ==
    /\ inst[g] # 0
    /\ ~ctxDone[inst[g]]
    /\ ctxDone' = [ctxDone EXCEPT ![inst[g]] = TRUE]
    /\ UNCHANGED <<kind, shared, connVars, handlerVars, serverVars>>

\* a handler given a connection directly whose context may be cancelled
NextCancel == NextHandler \/ \E g \in Conns : Cancel(g)

SpecCancel == InitHandler /\ [][NextCancel]_vars

\* ------------------------------------------------ kafkaApi called directly
\* the bodies a caller of dispatch may pass: the two the codec decodes, and a
\* ProtocolBody of another type whose APIKey() is the ApiVersions key
ApiBodies ==
    { [type |-> BodyTypeOf(key), key |-> key, Version |-> v] : key \in KnownKeys, v \in {0, 3} }
        \cup { [type |-> "OtherRequest", key |-> ApiVersionsApiKey, Version |-> v] : v \in {0, 3} }

\* the decoded requests passed to kafkaApi
ApiRequests ==
    { [err |-> "", CorrelationID |-> c, ClientID |-> cl, Body |-> b] :
          c \in {1, 2}, cl \in {<< >>, << 107 >>}, b \in ApiBodies }

\* Handle from its call of dispatch on, and run()'s test of the error
runHandle(g) ==
    /\ kind = "kafka"
    /\ pc[g] = "Dispatching"
    /\ LET h == HandleDecoded(req[g])
       IN /\ resp' = [resp EXCEPT ![g] = h.resp]
          /\ encoded' = [encoded EXCEPT ![g] = h.out]
          /\ IF h.err # ""
             THEN Return(g, h.err)
             ELSE /\ pc' = [pc EXCEPT ![g] = "Writing"]
                  /\ UNCHANGED <<exit, closeCount>>
    /\ UNCHANGED <<kind, shared, ctxDone, cst, clis, inbuf, pendingOut, sent, written, inst, hconn,
                   deferConn, reqSize, buffer, req, nread, received, serverVars>>

\* two handlers, each on its own connection, each holding a decoded request
InitApi ==
    /\ kind = "kafka"
    /\ shared = FALSE
    /\ ctxDone = [i \in Instances |-> FALSE]
    /\ cst = [c \in Conns |-> "open"]
    /\ clis = [c \in Conns |-> 0]
    /\ inbuf = [c \in Conns |-> << >>]
    /\ pendingOut = [c \in Conns |-> << >>]
    /\ sent = [c \in Conns |-> << >>]
    /\ written = [c \in Conns |-> << >>]
    /\ closeCount = [c \in Conns |-> 0]
    /\ pc = [g \in Conns |-> "Dispatching"]
    /\ inst = [g \in Conns |-> g]
    /\ hconn = [i \in Instances |-> i]
    /\ deferConn = [g \in Conns |-> g]
    /\ reqSize = [g \in Conns |-> 0]
    /\ buffer = [g \in Conns |-> << >>]
    /\ req \in [Conns -> ApiRequests]
    /\ resp = [g \in Conns |-> NoReq]
    /\ encoded = [g \in Conns |-> << >>]
    /\ exit = [g \in Conns |-> ""]
    /\ nread = [c \in Conns |-> 0]
    /\ received = [g \in Conns |-> << >>]
    /\ sl = [s \in Servers |-> 0]
    /\ startPc = [s \in Servers |-> "idle"]
    /\ startL = [s \in Servers |-> 0]
    /\ startRet = [s \in Servers |-> "none"]
    /\ stopPc = [s \in Servers |-> "idle"]
    /\ stopRet = [s \in Servers |-> "none"]
    /\ port = 0
    /\ lst = [l \in Listeners |-> "unused"]
    /\ backlog = [l \in Listeners |-> << >>]
    /\ aloop = [l \in Listeners |-> "none"]
    /\ aconn = [l \in Listeners |-> 0]
    /\ aexit = [l \in Listeners |-> ""]

\* the requests are handled and answered; the clients send nothing more and
\* may close
NextApi ==
    \E g \in Conns :
        \/ runHandle(g)
        \/ runWrite(g)
        \/ runReadSize(g)
        \/ ClientClose(g)

SpecApi == InitApi /\ [][NextApi]_vars

\* ---------------------------------------------------------------- TCPServer
\* the listening socket the next successful net.Listen creates
NextListener == Cardinality({l \in Listeners : lst[l] # "unused"}) + 1

\* mutant: s.l = l is assigned before the error of net.Listen is tested
StartListen_AssignFirst(s) ==
    /\ startPc[s] = "idle"
    /\ IF port = 0
       THEN /\ NextListener \in Listeners
            /\ lst' = [lst EXCEPT ![NextListener] = "open"]
            /\ port' = NextListener
            /\ startL' = [startL EXCEPT ![s] = NextListener]
            /\ startPc' = [startPc EXCEPT ![s] = "listened"]
            /\ UNCHANGED <<startRet, sl>>
       ELSE /\ startRet' = [startRet EXCEPT ![s] = "binderr"]
            /\ sl' = [sl EXCEPT ![s] = 0]
            /\ UNCHANGED <<lst, port, startL, startPc>>
    /\ UNCHANGED <<kind, shared, ctxDone, connVars, handlerVars, stopPc, stopRet, backlog,
                   aloop, aconn, aexit>>

\* Start: net.Listen; a bind error is returned to the caller
StartListen(s) ==
    /\ startPc[s] = "idle"
    /\ IF port = 0
       THEN /\ NextListener \in Listeners
            /\ lst' = [lst EXCEPT ![NextListener] = "open"]
            /\ port' = NextListener
            /\ startL' = [startL EXCEPT ![s] = NextListener]
            /\ startPc' = [startPc EXCEPT ![s] = "listened"]
            /\ UNCHANGED startRet
       ELSE /\ startRet' = [startRet EXCEPT ![s] = "binderr"]
            /\ UNCHANGED <<lst, port, startL, startPc>>
    /\ UNCHANGED <<kind, shared, ctxDone, connVars, handlerVars, sl, stopPc, stopRet, backlog,
                   aloop, aconn, aexit>>

\* Start: s.l = l, the accept loop goroutine is started, Start returns nil
StartSpawn(s) ==
    /\ startPc[s] = "listened"
    /\ sl' = [sl EXCEPT ![s] = startL[s]]
    /\ aloop' = [aloop EXCEPT ![startL[s]] = "accepting"]
    /\ startPc' = [startPc EXCEPT ![s] = "idle"]
    /\ startL' = [startL EXCEPT ![s] = 0]
    /\ startRet' = [startRet EXCEPT ![s] = "ok"]
    /\ UNCHANGED <<kind, shared, ctxDone, connVars, handlerVars, stopPc, stopRet,
                   port, lst, backlog, aconn, aexit>>

\* mutant: the accept loop does not tell net.ErrClosed from other errors
Accept_ClosedIsError(l) ==
    /\ aloop[l] = "accepting"
    /\ IF lst[l] = "closed"
       THEN /\ aloop' = [aloop EXCEPT ![l] = "exited"]
            /\ aexit' = [aexit EXCEPT ![l] = "error"]
            /\ UNCHANGED <<aconn, backlog>>
       ELSE /\ backlog[l] # << >>
            /\ aconn' = [aconn EXCEPT ![l] = Head(backlog[l])]
            /\ backlog' = [backlog EXCEPT ![l] = Tail(@)]
            /\ aloop' = [aloop EXCEPT ![l] = "spawning"]
            /\ UNCHANGED aexit
    /\ UNCHANGED <<kind, shared, ctxDone, connVars, handlerVars, sl, startPc, startL, startRet, stopPc,
                   stopRet,  port, lst>>

\* accept loop: l.Accept() returns a connection, or net.ErrClosed after Close
Accept(l) ==
    /\ aloop[l] = "accepting"
    /\ IF lst[l] = "closed"
       THEN /\ aloop' = [aloop EXCEPT ![l] = "exited"]
            /\ aexit' = [aexit EXCEPT ![l] = "closed"]
            /\ UNCHANGED <<aconn, backlog>>
       ELSE /\ backlog[l] # << >>
            /\ aconn' = [aconn EXCEPT ![l] = Head(backlog[l])]
            /\ backlog' = [backlog EXCEPT ![l] = Tail(@)]
            /\ aloop' = [aloop EXCEPT ![l] = "spawning"]
            /\ UNCHANGED aexit
    /\ UNCHANGED <<kind, shared, ctxDone, connVars, handlerVars, sl, startPc, startL, startRet, stopPc,
                   stopRet,  port, lst>>

\* mutant: the accept loop logs the error and calls Accept again
AcceptError_Retry(l) ==
    /\ aloop[l] = "accepting"
    /\ lst[l] = "open"
    /\ aexit' = [aexit EXCEPT ![l] = "error"]
    /\ UNCHANGED <<kind, shared, ctxDone, connVars, handlerVars, sl, startPc, startL, startRet, stopPc,
                   stopRet,  port, lst, backlog, aconn, aloop>>

\* mutant: the accept loop closes its listener before it returns on the error
AcceptError_ClosesListener(l) ==
    /\ aloop[l] = "accepting"
    /\ lst[l] = "open"
    /\ aloop' = [aloop EXCEPT ![l] = "exited"]
    /\ aexit' = [aexit EXCEPT ![l] = "error"]
    /\ lst' = [lst EXCEPT ![l] = "closed"]
    /\ port' = IF port = l THEN 0 ELSE port
    /\ UNCHANGED <<kind, shared, ctxDone, connVars, handlerVars, sl, startPc, startL, startRet, stopPc,
                   stopRet, backlog, aconn>>

\* accept loop: l.Accept() returns another error; the loop returns
AcceptError(l) ==
    /\ aloop[l] = "accepting"
    /\ lst[l] = "open"
    /\ aloop' = [aloop EXCEPT ![l] = "exited"]
    /\ aexit' = [aexit EXCEPT ![l] = "error"]
    /\ UNCHANGED <<kind, shared, ctxDone, connVars, handlerVars, sl, startPc, startL, startRet, stopPc,
                   stopRet,  port, lst, backlog, aconn>>

\* mutant: the factory hands out one handler instance for every connection
NewInstance_Single(g) == 1

\* the instance handlerFactory() returns for the goroutine of connection g
NewInstance(g) == IF shared THEN 1 ELSE g

\* mutant: the accept loop calls HandleConnection itself instead of starting
\* a goroutine for it, and so does not come back to Accept
Spawn_Inline(l) ==
    /\ aloop[l] = "spawning"
    /\ inst' = [inst EXCEPT ![aconn[l]] = NewInstance(aconn[l])]
    /\ pc' = [pc EXCEPT ![aconn[l]] = "Start"]
    /\ aloop' = [aloop EXCEPT ![l] = "handling"]
    /\ aconn' = [aconn EXCEPT ![l] = 0]
    /\ UNCHANGED <<kind, shared, ctxDone, connVars, hconn, deferConn, reqSize, buffer, req, resp,
                   encoded, exit, nread, received, sl, startPc, startL, startRet, stopPc,
                   stopRet,  port, lst, backlog, aexit>>

\* accept loop: go s.handlerFactory().HandleConnection(conn)
Spawn(l) ==
    /\ aloop[l] = "spawning"
    /\ inst' = [inst EXCEPT ![aconn[l]] = NewInstance(aconn[l])]
    /\ pc' = [pc EXCEPT ![aconn[l]] = "Start"]
    /\ aloop' = [aloop EXCEPT ![l] = "accepting"]
    /\ aconn' = [aconn EXCEPT ![l] = 0]
    /\ UNCHANGED <<kind, shared, ctxDone, connVars, hconn, deferConn, reqSize, buffer, req, resp,
                   encoded, exit, nread, received, sl, startPc, startL, startRet, stopPc,
                   stopRet,  port, lst, backlog, aexit>>

\* mutant: Stop calls Close without testing s.l and returns its error
StopCheck_NoNilTest(s) ==
    /\ stopPc[s] = "idle"
    /\ IF sl[s] = 0
       THEN /\ stopRet' = [stopRet EXCEPT ![s] = "error"]
            /\ UNCHANGED stopPc
       ELSE /\ stopPc' = [stopPc EXCEPT ![s] = "closing"]
            /\ UNCHANGED stopRet
    /\ UNCHANGED <<kind, shared, ctxDone, connVars, handlerVars, sl, startPc, startL, startRet,
                   port, lst, backlog, aloop, aconn, aexit>>

\* Stop: the s.l == nil test
StopCheck(s) ==
    /\ stopPc[s] = "idle"
    /\ IF sl[s] = 0
       THEN /\ stopRet' = [stopRet EXCEPT ![s] = "noop"]
            /\ UNCHANGED stopPc
       ELSE /\ stopPc' = [stopPc EXCEPT ![s] = "closing"]
            /\ UNCHANGED stopRet
    /\ UNCHANGED <<kind, shared, ctxDone, connVars, handlerVars, sl, startPc, startL, startRet,
                   port, lst, backlog, aloop, aconn, aexit>>

\* mutant: closing the listener also resets the connections accepted from it
ListenerClose_ResetAccepted(l) ==
    /\ lst' = [lst EXCEPT ![l] = "closed"]
    /\ port' = IF port = l THEN 0 ELSE port
    /\ backlog' = [backlog EXCEPT ![l] = << >>]
    /\ cst' = [c \in Conns |-> IF clis[c] = l /\ cst[c] = "open" THEN "reset" ELSE cst[c]]

\* net.Listener.Close: the address is released, connections still waiting to
\* be accepted are reset
ListenerClose(l) ==
    /\ lst' = [lst EXCEPT ![l] = "closed"]
    /\ port' = IF port = l THEN 0 ELSE port
    /\ backlog' = [backlog EXCEPT ![l] = << >>]
    /\ cst' = [c \in Conns |->
                 IF \E i \in 1..Len(backlog[l]) : backlog[l][i] = c THEN "reset" ELSE cst[c]]

\* mutant: Stop forgets the listener without closing it
StopClose_NoClose(s) ==
    /\ stopPc[s] = "closing"
    /\ stopPc' = [stopPc EXCEPT ![s] = "idle"]
    /\ sl' = [sl EXCEPT ![s] = 0]
    /\ stopRet' = [stopRet EXCEPT ![s] = "ok"]
    /\ UNCHANGED <<kind, shared, ctxDone, connVars, handlerVars, startPc, startL, startRet,
                   port, lst, backlog, aloop, aconn, aexit>>

\* mutant: Stop clears s.l also when Close has returned an error
StopClose_ClearsOnError(s) ==
    /\ stopPc[s] = "closing"
    /\ stopPc' = [stopPc EXCEPT ![s] = "idle"]
    /\ sl' = [sl EXCEPT ![s] = 0]
    /\ IF lst[sl[s]] = "open"
       THEN /\ ListenerClose(sl[s])
            /\ stopRet' = [stopRet EXCEPT ![s] = "ok"]
       ELSE /\ stopRet' = [stopRet EXCEPT ![s] = "error"]
            /\ UNCHANGED <<lst, port, backlog, cst>>
    /\ UNCHANGED <<kind, shared, ctxDone, clis, inbuf, pendingOut, sent, written, closeCount,
                   handlerVars, startPc, startL, startRet,  aloop, aconn, aexit>>

\* Stop: s.l.Close(); on an error return it, else s.l = nil and return nil
StopClose(s) ==
    /\ stopPc[s] = "closing"
    /\ stopPc' = [stopPc EXCEPT ![s] = "idle"]
    /\ IF lst[sl[s]] = "open"
       THEN /\ ListenerClose(sl[s])
            /\ sl' = [sl EXCEPT ![s] = 0]
            /\ stopRet' = [stopRet EXCEPT ![s] = "ok"]
       ELSE /\ stopRet' = [stopRet EXCEPT ![s] = "error"]
            /\ UNCHANGED <<lst, port, backlog, cst, sl>>
    /\ UNCHANGED <<kind, shared, ctxDone, clis, inbuf, pendingOut, sent, written, closeCount,
                   handlerVars, startPc, startL, startRet,  aloop, aconn, aexit>>

\* a client dials the address: refused unless a listener is bound to it
\* (connections are numbered in the order they are dialled)
ClientDial(c) ==
    /\ cst[c] = "idle"
    /\ \A b \in Conns : b < c => cst[b] # "idle"
    /\ IF port # 0
       THEN /\ cst' = [cst EXCEPT ![c] = "open"]
            /\ clis' = [clis EXCEPT ![c] = port]
            /\ backlog' = [backlog EXCEPT ![port] = Append(@, c)]
       ELSE /\ cst' = [cst EXCEPT ![c] = "refused"]
            /\ UNCHANGED <<clis, backlog>>
    /\ UNCHANGED <<kind, shared, ctxDone, inbuf, pendingOut, sent, written, closeCount, handlerVars,
                   sl, startPc, startL, startRet, stopPc, stopRet, port, lst,
                   aloop, aconn, aexit>>

\* --------------------------------------------------------- the whole server
\* main's factory builds a new handler for every connection
Init ==
    /\ kind = "kafka"
    /\ shared = FALSE
    /\ InitCommon
    /\ cst = [c \in Conns |-> "idle"]
    /\ pc = [g \in Conns |-> "none"]
    /\ inst = [g \in Conns |-> 0]

ServerNext ==
    \/ \E s \in Servers : StartListen(s) \/ StartSpawn(s) \/ StopCheck(s) \/ StopClose(s)
    \/ \E l \in Listeners : Accept(l) \/ AcceptError(l) \/ Spawn(l)
    \/ \E c \in Conns : ClientDial(c)

Next == ServerNext \/ ServedClientNext \/ KafkaHandlerNext

Spec == Init /\ [][Next]_vars

\* the Go scheduler runs every goroutine that can take a step. Assumed here
\* only for a Start call that has bound its socket,
\* for an accept loop whose Accept can return or that has a connection
\* to spawn a handler for, and for a handler about to call HandleConnection,
\* the Read of the length prefix or the Write
FairSpec ==
    /\ Spec
    /\ \A s \in Servers : WF_vars(StartSpawn(s))
    /\ \A l \in Listeners : WF_vars(Accept(l)) /\ WF_vars(Spawn(l))
    /\ \A g \in Conns :
          WF_vars(HandleConnection(g)) /\ WF_vars(runReadSize(g)) /\ WF_vars(runWrite(g))

\* ------------------------------------------------ any handler factory
\* NewTCPServer takes any ConnectionHandlerFactory: one that builds a handler
\* per call, as main's does, or one that returns the same handler every time,
\* as the factory of TestStartReceiveStop does
InitFactory ==
    /\ kind = "kafka"
    /\ shared \in BOOLEAN
    /\ InitCommon
    /\ cst = [c \in Conns |-> "idle"]
    /\ pc = [g \in Conns |-> "none"]
    /\ inst = [g \in Conns |-> 0]

SpecFactory == InitFactory /\ [][Next]_vars

\* ------------------------------------------- a Close call that fails
\* Stop: s.l.Close() on an open listener returns an error of the operating
\* system; Stop returns it and s.l stays set.  Whether the socket was
\* released all the same is not decided by this code: both are possible
StopCloseError(s) ==
    /\ stopPc[s] = "closing"
    /\ lst[sl[s]] = "open"
    /\ stopPc' = [stopPc EXCEPT ![s] = "idle"]
    /\ stopRet' = [stopRet EXCEPT ![s] = "error"]
    /\ \/ UNCHANGED <<lst, port, backlog, cst>>
       \/ ListenerClose(sl[s])
    /\ UNCHANGED <<kind, shared, ctxDone, clis, inbuf, pendingOut, sent, written, closeCount,
                   handlerVars, sl, startPc, startL, startRet,  aloop, aconn, aexit>>

NextStopError == Next \/ \E s \in Servers : StopCloseError(s)

SpecStopError == Init /\ [][NextStopError]_vars

\* --------------------------------------------------------------- main
\* go s.Start(): main calls Start once, in a goroutine of its own
mainStart(s) ==
    /\ startRet[s] = "none"
    /\ StartListen(s)

\* <-ctx.Done(); s.Stop(): main calls Stop once, when the signal has arrived
mainStop(s) ==
    /\ stopRet[s] = "none"
    /\ StopCheck(s)

\* main's factory builds a new pkg/server handler for every connection
InitMain ==
    /\ kind = "server"
    /\ shared = FALSE
    /\ InitCommon
    /\ cst = [c \in Conns |-> "idle"]
    /\ pc = [g \in Conns |-> "none"]
    /\ inst = [g \in Conns |-> 0]

NextMain ==
    \/ \E s \in Servers : mainStart(s) \/ StartSpawn(s) \/ mainStop(s) \/ StopClose(s)
    \/ \E l \in Listeners : Accept(l) \/ AcceptError(l) \/ Spawn(l)
    \/ \E c \in Conns : ClientDial(c)
    \/ ServedClientNext
    \/ \E g \in Conns : HandleConnection(g)
    \/ SrvHandlerNext

SpecMain == InitMain /\ [][NextMain]_vars

\* ================================================================= claims

\* correlation identifier a response frame carries
RespCorr(frame) == DecodeResponseHeader(frame).CorrelationID

\* payload of the j-th frame the client of c sent
SentPayload(c, j) == Drop(Frame(sent[c][j].kind, sent[c][j].corr), SizeLen)

\* C1: on one connection the pkg/kafka loop has read at most one request more
\* than it has written responses, and while it is reading (length prefix or
\* body of the next request) every request read before has been answered.
C1_NoPipelining ==
    kind = "kafka" =>
        \A c \in Conns :
            /\ nread[c] - Len(written[c]) \in {0, 1}
            /\ pc[c] \in {"ReadingSize", "ReadingBody"} => nread[c] = Len(written[c])

\* the client has already sent request 2 while the handler still holds the
\* response to request 1
C1_Witness ==
    /\ kind = "kafka"
    /\ pc[1] = "Writing"
    /\ nread[1] = 1
    /\ Len(sent[1]) = 2
    /\ Len(inbuf[1]) = SizeLen + ReqHeaderLen

\* C2: however run() ends, Close has been called exactly once on the
\* handler's connection, and not at all while the loop runs.
C2_ClosedExactlyOnce ==
    \A g \in Conns :
        /\ pc[g] = "Closed" => closeCount[g] = 1 /\ exit[g] # ""
        /\ pc[g] # "Closed" => closeCount[g] = 0 /\ exit[g] = ""

\* a loop ended by a failed Write after one answered request
C2_Witness ==
    /\ pc[1] = "Closed"
    /\ exit[1] = "write_error"
    /\ Len(written[1]) = 1
    /\ closeCount[1] = 1

\* C3: the i-th response written on a connection carries the correlation
\* identifier the client put in its i-th request, and the response about to
\* be written carries the one of the request just decoded.
C3_CorrelationEchoed ==
    kind = "kafka" =>
        \A c \in Conns :
            /\ \A i \in 1..Len(written[c]) :
                  /\ i <= Len(sent[c])
                  /\ RespCorr(written[c][i]) = sent[c][i].corr
            /\ pc[c] = "Writing" => RespCorr(encoded[c]) = req[c].CorrelationID

\* two requests with different correlation identifiers were answered
C3_Witness ==
    /\ kind = "kafka"
    /\ Len(written[1]) = 2
    /\ RespCorr(written[1][1]) # RespCorr(written[1][2])

\* C4: once the loop has read a request whose API key has no handler, it has
\* ended on the dispatch error, has written nothing for that request and has
\* closed the connection.
C4_UnknownKeyCloses ==
    kind = "kafka" =>
        \A g \in Conns :
            LET n == Len(received[g])
                d == DecodeRequest(received[g][n])
            IN (n > 0 /\ d.err = "" /\ APIKey(d.Body) # ApiVersionsApiKey) =>
                   /\ dispatch(d).err # ""
                   /\ pc[g] = "Closed"
                   /\ exit[g] = "dispatch_error"
                   /\ closeCount[g] = 1
                   /\ Len(written[g]) = n - 1

\* an answered request followed by one with the Metadata key
C4_Witness ==
    /\ kind = "kafka"
    /\ exit[1] = "dispatch_error"
    /\ Len(written[1]) = 1
    /\ Len(received[1]) = 2

\* C5: the loop never ends because a Read of the length prefix returned fewer
\* than 4 bytes without an error.
C5_ShortPrefixRetried == kind = "kafka" => \A g \in Conns : exit[g] # "size_short"

\* C6: the loop never ends because a Read of the body returned fewer bytes
\* than declared without an error.
C6_ShortBodyRetried == kind = "kafka" => \A g \in Conns : exit[g] # "body_short"

\* the return statements of run() taken on an error
ErrorExits == {"size_read_error", "size_short", "body_read_error", "body_short",
               "decode_error", "dispatch_error", "write_error"}

\* C7: the step in which one handler ends changes nothing of the acceptor
\* (listener, accept loop, connections waiting to be accepted) and nothing of
\* any other connection or its handler.
C7_ErrorsIsolated ==
    [][\A g \in Conns :
          (pc[g] # "Closed" /\ pc'[g] = "Closed") =>
              /\ UNCHANGED serverVars
              /\ \A h \in Conns \ {g} :
                    /\ pc'[h] = pc[h] /\ exit'[h] = exit[h]
                    /\ closeCount'[h] = closeCount[h]
                    /\ cst'[h] = cst[h] /\ inbuf'[h] = inbuf[h]
                    /\ written'[h] = written[h] /\ received'[h] = received[h]
                    /\ hconn'[inst[h]] = hconn[inst[h]]]_vars

\* handler 1 has ended on an error while the accept loop still accepts and
\* handler 2 holds a response it is about to write
C7_Witness ==
    /\ exit[1] \in ErrorExits
    /\ pc[2] = "Writing"
    /\ \E l \in Listeners : aloop[l] = "accepting" /\ lst[l] = "open"

\* C8: every payload a handler receives was sent on the connection it was
\* spawned for, and every response written on a connection answers a request
\* sent on that connection.
C8_NoCrossDelivery ==
    \A c \in Conns :
        /\ \A i \in 1..Len(received[c]) :
              \E j \in 1..Len(sent[c]) : received[c][i] = SentPayload(c, j)
        /\ \A i \in 1..Len(written[c]) :
              \E j \in 1..Len(sent[c]) : RespCorr(written[c][i]) = sent[c][j].corr

\* both clients are connected, client 1 has its response, the handler of
\* client 2 holds the response to the request of client 2
C8_Witness ==
    /\ cst[1] = "open" /\ cst[2] = "open"
    /\ Len(written[1]) = 1
    /\ pc[2] = "Writing"
    /\ pc[1] = "ReadingSize"

\* C9: a Start call made while the address is in use returns the bind error
\* and changes nothing else: the listener field, the listeners, the accept
\* loops, the waiting and the accepted connections stay as they were.
C9_BindErrorChangesNothing ==
    [][\A s \in Servers :
          (startPc[s] = "idle" /\ port # 0 /\ startRet'[s] # startRet[s]) =>
              /\ startRet'[s] = "binderr"
              /\ startPc'[s] = "idle"
              /\ UNCHANGED <<sl, port, lst, backlog, aloop, aconn, aexit, stopPc, stopRet>>
              /\ UNCHANGED <<connVars, handlerVars>>]_vars

\* the second Start has failed and the first listener is still bound, held by
\* the server and accepted from
C9_Witness ==
    /\ startRet[1] = "binderr"
    /\ sl[1] # 0 /\ port = sl[1]
    /\ lst[sl[1]] = "open"
    /\ aloop[sl[1]] = "accepting"

\* Stop has returned nil after closing the listener and no Start followed
Stopped(s) == stopRet[s] = "ok" /\ sl[s] = 0 /\ startPc[s] = "idle"

\* C10: a connection attempt made after Stop has returned is refused, and a
\* refused attempt never gets a handler.
C10_RefusedAfterStop ==
    /\ [](\A c \in Conns : cst[c] = "refused" => pc[c] = "none" /\ inst[c] = 0 /\ clis[c] = 0)
    /\ [][\A c \in Conns :
             ((\E s \in Servers : Stopped(s)) /\ cst[c] = "idle" /\ cst'[c] # "idle") =>
                 cst'[c] = "refused" /\ UNCHANGED <<backlog, pc, inst>>]_vars

\* client 1 was accepted by the listener, Stop returned, client 2 is refused
C10_Witness ==
    /\ clis[1] # 0
    /\ Stopped(1)
    /\ cst[2] = "refused"

\* connection c has been returned by Accept
Accepted(c) == pc[c] # "none" \/ \E l \in Listeners : aconn[l] = c

\* C11: a step of Stop changes nothing of an accepted connection (its two
\* ends, its buffers, its handler), and after Stop has returned a handler
\* holding a response for a connected client gets to write it, unless that
\* client goes away first.
C11_StopLeavesAccepted ==
    /\ [][(stopPc' # stopPc \/ stopRet' # stopRet) =>
             \A c \in Conns :
                 Accepted(c) =>
                     /\ cst'[c] = cst[c] /\ closeCount'[c] = closeCount[c]
                     /\ inbuf'[c] = inbuf[c] /\ written'[c] = written[c]
                     /\ pc'[c] = pc[c] /\ exit'[c] = exit[c]
                     /\ inst'[c] = inst[c] /\ encoded'[c] = encoded[c]]_vars
    /\ \A g \in Conns :
          (Stopped(1) /\ pc[g] = "Writing" /\ cst[g] = "open")
              ~> (Len(written[g]) = 1 \/ (exit[g] = "write_error" /\ cst[g] # "open"))

\* Stop has returned while the handler of connection 1 holds a response for
\* its still connected client
C11_Witness ==
    /\ Stopped(1)
    /\ pc[1] = "Writing"
    /\ cst[1] = "open"
    /\ closeCount[1] = 0

\* C12: a Stop call that finds s.l nil returns nil at once: its only effect is
\* its return value; no listener, no field of the server, no connection and
\* no handler changes.
C12_StopNotStartedNoop ==
    [][\A s \in Servers :
          (stopPc[s] = "idle" /\ sl[s] = 0 /\ stopRet'[s] # stopRet[s]) =>
              /\ stopRet'[s] = "noop"
              /\ stopPc'[s] = "idle"
              /\ UNCHANGED <<sl, startPc, startL, startRet, port, lst, backlog,
                             aloop, aconn, aexit>>
              /\ UNCHANGED <<connVars, handlerVars>>]_vars

\* Stop has returned on a server on which Start was never called
C12_Witness ==
    /\ stopRet[1] = "noop"
    /\ stopPc[1] = "idle"
    /\ startRet[1] = "none" /\ startPc[1] = "idle"
    /\ sl[1] = 0 /\ port = 0
    /\ \A l \in Listeners : lst[l] = "unused" /\ aloop[l] = "none"

\* C13: an accept loop waiting in Accept on a closed listener takes one step
\* only, the return on net.ErrClosed: it ends with the listener-closed reason,
\* spawns no handler and accepts no connection; it does take that step, and
\* a loop that has ended stays ended.
C13_AcceptLoopEndsOnClose ==
    /\ [][\A l \in Listeners :
             /\ (lst[l] = "closed" /\ aloop[l] = "accepting" /\ aloop'[l] # aloop[l]) =>
                    /\ aloop'[l] = "exited" /\ aexit'[l] = "closed"
                    /\ UNCHANGED <<aconn, backlog, connVars, handlerVars>>
             /\ aloop[l] = "exited" => aloop'[l] = "exited" /\ aexit'[l] = aexit[l]]_vars
    /\ \A l \in Listeners :
          (lst[l] = "closed" /\ aloop[l] = "accepting")
              ~> (aloop[l] = "exited" /\ aexit[l] = "closed")

\* Stop has returned and the accept loop of the listener it closed has ended
\* on the listener-closed condition, with a handler spawned before still there
C13_Witness ==
    /\ stopRet[1] = "ok"
    /\ lst[1] = "closed"
    /\ aloop[1] = "exited" /\ aexit[1] = "closed"
    /\ pc[1] # "none"

\* C14: the step in which Accept fails on an open listener ends the accept
\* loop and touches no connection and no handler; from then on that loop
\* never runs again: it accepts nothing, and a connection made to its
\* listener and not yet accepted stays in the queue of the open listener and
\* never gets a handler.
C14_AcceptErrorEndsLoop ==
    [][\A l \in Listeners :
          /\ (lst[l] = "open" /\ aloop[l] = "accepting" /\ aloop'[l] = "exited") =>
                 /\ aexit'[l] = "error"
                 /\ UNCHANGED <<connVars, handlerVars, backlog, aconn>>
          /\ aexit[l] = "error" =>
                 /\ aloop'[l] = "exited" /\ aexit'[l] = "error" /\ aconn'[l] = aconn[l]
                 /\ \A c \in Conns :
                       (clis[c] = l /\ pc[c] = "none") => (pc'[c] = "none" /\ inst'[c] = 0)
                 /\ lst'[l] = "open" =>
                       \A i \in 1..Len(backlog[l]) :
                           i <= Len(backlog'[l]) /\ backlog'[l][i] = backlog[l][i]]_vars

\* the accept loop has ended on an error; the handler of connection 1,
\* accepted before, is at work, and connection 2, made after, waits unaccepted
C14_Witness ==
    /\ aloop[1] = "exited" /\ aexit[1] = "error"
    /\ lst[1] = "open"
    /\ pc[1] = "Writing"
    /\ cst[2] = "open" /\ pc[2] = "none"
    /\ backlog[1] = <<2>>

\* the handler of connection g waits in the Read of a length prefix: nothing
\* has arrived and the client is still connected
Blocked(g) == pc[g] = "ReadingSize" /\ inbuf[g] = << >> /\ cst[g] = "open" /\ closeCount[g] = 0

\* connection c waits in the queue of listener l
Queued(c, l) == \E i \in 1..Len(backlog[l]) : backlog[l][i] = c

\* C15: a Start call that has bound its socket returns nil, in a step that
\* involves no connection; and while the handler of one connection is blocked
\* in Read, another connection waiting on the listener is accepted and gets
\* its handler (unless Accept fails or the listener is closed first), and a
\* response held for another connected client is written (unless that client
\* goes away first).
C15_StartAndHandlersIndependent ==
    /\ [][\A s \in Servers :
             (startPc[s] = "listened" /\ startPc'[s] = "idle") =>
                 startRet'[s] = "ok" /\ UNCHANGED <<connVars, handlerVars, backlog, aconn>>]_vars
    /\ \A s \in Servers : startPc[s] = "listened" ~> startRet[s] = "ok"
    /\ \A g \in Conns, h \in Conns, l \in Listeners :
          (g # h /\ Blocked(g) /\ Queued(h, l) /\ lst[l] = "open" /\ aloop[l] # "exited")
              ~> (pc[h] # "none" \/ aexit[l] = "error" \/ lst[l] = "closed")
    /\ \A g \in Conns, h \in Conns :
          (g # h /\ Blocked(g) /\ pc[h] = "Writing" /\ cst[h] = "open")
              ~> (Len(written[h]) = 1 \/ cst[h] # "open")

\* the handler of connection 1 has been blocked since it started, and
\* connection 2, accepted after it, was answered and served to its end
C15_Witness ==
    /\ Blocked(1) /\ sent[1] = << >>
    /\ startRet[1] = "ok"
    /\ Len(written[2]) = 1
    /\ pc[2] = "Closed" /\ exit[2] = "eof"

\* C16: once the loop has read a payload that does not decode into a request,
\* it has ended on the decode error, has written nothing for that payload and
\* has closed the connection; and a loop that has ended reads and writes
\* nothing more.
C16_DecodeErrorCloses ==
    /\ [](kind = "kafka" =>
            \A g \in Conns :
                LET n == Len(received[g])
                IN (n > 0 /\ DecodeRequest(received[g][n]).err # "") =>
                       /\ pc[g] = "Closed"
                       /\ exit[g] = "decode_error"
                       /\ closeCount[g] = 1
                       /\ Len(written[g]) = n - 1
                       /\ nread[g] = n)
    /\ [][\A g \in Conns :
             exit[g] = "decode_error" =>
                 /\ pc'[g] = "Closed" /\ exit'[g] = exit[g]
                 /\ nread'[g] = nread[g] /\ received'[g] = received[g]
                 /\ written'[g] = written[g] /\ closeCount'[g] = closeCount[g]]_vars

\* a frame whose payload is too short to decode, followed by a frame the
\* closed loop has left unread
C16_Witness ==
    /\ kind = "kafka"
    /\ exit[1] = "decode_error"
    /\ Len(received[1]) = 1 /\ written[1] = << >>
    /\ Len(sent[1]) = 2 /\ inbuf[1] # << >>

\* C17: the pkg/kafka loop leaves its Write either with the response written
\* and back at the read of a length prefix, or, the Write having failed, ended
\* with the connection closed; after a failed Write it reads and writes
\* nothing more.
C17_WriteErrorCloses ==
    [][kind = "kafka" =>
          \A g \in Conns :
              /\ (pc[g] = "Writing" /\ pc'[g] # "Writing") =>
                     \/ /\ pc'[g] = "ReadingSize"
                        /\ written'[g] = Append(written[g], encoded[g])
                        /\ closeCount'[g] = closeCount[g] /\ exit'[g] = ""
                     \/ /\ pc'[g] = "Closed" /\ exit'[g] = "write_error"
                        /\ written'[g] = written[g]
                        /\ closeCount[g] = 0 /\ closeCount'[g] = 1
              /\ exit[g] = "write_error" =>
                     /\ pc'[g] = "Closed" /\ exit'[g] = exit[g]
                     /\ nread'[g] = nread[g] /\ received'[g] = received[g]
                     /\ written'[g] = written[g] /\ closeCount'[g] = 1]_vars

\* the Write of the first response failed because the client had gone; the
\* second request of that client is left unread on the closed connection
C17_Witness ==
    /\ kind = "kafka"
    /\ exit[1] = "write_error" /\ pc[1] = "Closed"
    /\ nread[1] = 1 /\ written[1] = << >>
    /\ Len(sent[1]) = 2 /\ inbuf[1] # << >>
    /\ closeCount[1] = 1

\* C18: the pkg/kafka loop ends on end-of-stream or on a read error of the
\* length prefix only from the read of a length prefix, writing nothing and
\* closing the connection once; and a handler waiting for a length prefix
\* whose client has gone, with nothing left to read, does end that way.
C18_DisconnectEndsHandler ==
    /\ [][kind = "kafka" =>
             \A g \in Conns :
                 (exit[g] = "" /\ exit'[g] \in {"eof", "size_read_error"}) =>
                     /\ pc[g] = "ReadingSize" /\ pc'[g] = "Closed"
                     /\ written'[g] = written[g] /\ nread'[g] = nread[g]
                     /\ closeCount[g] = 0 /\ closeCount'[g] = 1]_vars
    /\ \A g \in Conns :
          (kind = "kafka" /\ pc[g] = "ReadingSize" /\ inbuf[g] = << >>
                /\ cst[g] \in {"closed", "reset"})
              ~> (pc[g] = "Closed" /\ exit[g] \in {"eof", "size_read_error"})

\* the client closed after its first request was answered, and the handler
\* ended on end-of-stream
C18_Witness ==
    /\ kind = "kafka"
    /\ cst[1] = "closed"
    /\ exit[1] = "eof" /\ pc[1] = "Closed"
    /\ Len(written[1]) = 1 /\ nread[1] = 1
    /\ closeCount[1] = 1

\* positions of a goroutine inside the loop of run()
LoopPositions == {"ReadingSize", "ReadingBody", "Writing", "WritingBody"}

\* C19: the goroutine that called HandleConnection is past the call only when
\* run() has taken one of its return statements and the deferred Close has
\* run; it gets there only from inside the loop, by a return that follows
\* end-of-stream (the client has closed and nothing is left to read) or a
\* failed check of the loop.
C19_ReturnsOnlyAfterClose ==
    /\ [](\A g \in Conns :
            pc[g] = "Closed" =>
                /\ exit[g] \in {"eof"} \cup ErrorExits
                /\ closeCount[g] = 1)
    /\ [][\A g \in Conns :
             (pc[g] # "Closed" /\ pc'[g] = "Closed") =>
                 /\ pc[g] \in LoopPositions
                 /\ exit'[g] \in {"eof"} \cup ErrorExits
                 /\ closeCount[g] = 0 /\ closeCount'[g] = 1
                 /\ exit'[g] = "eof" => (cst[g] = "closed" /\ inbuf[g] = << >>)]_vars

\* two requests were answered, then the client closed and HandleConnection
\* returned
C19_Witness ==
    /\ pc[1] = "Closed" /\ exit[1] = "eof"
    /\ Len(written[1]) >= 2
    /\ closeCount[1] = 1

\* C20: when the client of connection 1 sends one well-formed ApiVersions
\* request, all of it before it closes, and the handler has ended (not on a
\* reset by the client nor on a failed Write), then the client had closed, and
\* the handler ended on end-of-stream after writing exactly one response,
\* whose body has error code 0 and an entry for the ApiVersions key.
C20_OneApiVersionsAnswered ==
    (/\ kind = "kafka"
     /\ sent[1] = << [kind |-> "apiversions", corr |-> CorrOf(1, 1)] >>
     /\ cst[1] = "closed" => pendingOut[1] = << >>
     /\ cst[1] # "reset"
     /\ pc[1] = "Closed" /\ exit[1] # "write_error") =>
        /\ cst[1] = "closed"
        /\ exit[1] = "eof"
        /\ Len(written[1]) = 1
        /\ LET r == DecodeResponse(written[1][1])
           IN /\ r.ErrorCode = 0
              /\ r.CorrelationID = CorrOf(1, 1)
              /\ \E i \in 1..Len(r.ApiKeys) : r.ApiKeys[i].ApiKey = ApiVersionsApiKey

\* correlation identifiers of the requests in a sequence of payloads
CorrsOfPayloads(ps) == [i \in 1..Len(ps) |-> DecodeRequest(ps[i]).CorrelationID]

\* C21: on one connection the i-th payload the pkg/kafka loop hands to the
\* request handler is the payload of the i-th frame the client sent, and the
\* i-th response written answers the i-th request received: the correlation
\* identifiers written are a prefix of those received.
C21_ResponsesInRequestOrder ==
    kind = "kafka" =>
        \A c \in Conns :
            /\ Len(received[c]) <= Len(sent[c])
            /\ \A i \in 1..Len(received[c]) : received[c][i] = SentPayload(c, i)
            /\ Len(written[c]) <= Len(received[c])
            /\ \A i \in 1..Len(written[c]) :
                  RespCorr(written[c][i]) = CorrsOfPayloads(received[c])[i]

\* two requests were received and answered, and the loop waits for a third
C21_Witness ==
    /\ kind = "kafka"
    /\ Len(received[1]) = 2 /\ Len(written[1]) = 2
    /\ received[1][1] # received[1][2]
    /\ pc[1] = "ReadingSize" /\ cst[1] = "open"

\* API key of a decoded request
KeyOf(d) == APIKey(d.Body)

\* C22: dispatch produces a response only through HandleApiVersions, and only
\* for a request with the ApiVersions key: every request that was answered
\* had that key, and a request with another key is the last one the loop
\* received, left without a response, the loop having ended.
C22_OnlyApiVersionsRouted ==
    kind = "kafka" =>
        \A g \in Conns :
            \A i \in 1..Len(received[g]) :
                LET d == DecodeRequest(received[g][i])
                IN d.err = "" =>
                       /\ dispatch(d).err = "" => KeyOf(d) = ApiVersionsApiKey
                       /\ i <= Len(written[g]) => KeyOf(d) = ApiVersionsApiKey
                       /\ KeyOf(d) # ApiVersionsApiKey =>
                              /\ i = Len(received[g])
                              /\ Len(written[g]) = i - 1
                              /\ resp[g] = NoReq
                              /\ pc[g] = "Closed"

\* a request with the ApiVersions key was answered with an ApiVersions
\* response and the request with the Metadata key after it got none
C22_Witness ==
    /\ kind = "kafka"
    /\ Len(received[1]) = 2
    /\ DecodeRequest(received[1][1]).err = "" /\ DecodeRequest(received[1][2]).err = ""
    /\ KeyOf(DecodeRequest(received[1][1])) = ApiVersionsApiKey
    /\ KeyOf(DecodeRequest(received[1][2])) = MetadataApiKey
    /\ Len(written[1]) = 1
    /\ DecodeResponse(written[1][1]).ApiKeys # << >>
    /\ resp[1] = NoReq

\* the request goroutine g holds has the ApiVersions key and a body that is
\* not an ApiVersions request
Mismatched(g) ==
    /\ req[g] # NoReq
    /\ KeyOf(req[g]) = ApiVersionsApiKey
    /\ req[g].Body.type # "ApiVersionsRequest"

\* C23: for a request with the ApiVersions key whose body is not an
\* ApiVersions request, dispatch returns the invalid-type error and no
\* response; once Handle has returned for it, nothing was written on the
\* connection, the loop has ended on the dispatch error and the connection
\* is closed.
C23_TypeMismatchCloses ==
    \A g \in Conns :
        Mismatched(g) =>
            /\ dispatch(req[g]) = [err |-> "invalid request type"]
            /\ resp[g] = NoReq /\ written[g] = << >>
            /\ pc[g] # "Dispatching" =>
                   /\ pc[g] = "Closed" /\ exit[g] = "dispatch_error"
                   /\ closeCount[g] = 1

\* the mismatched request of connection 1 was refused while connection 2,
\* whose request was well-typed, has its response
C23_Witness ==
    /\ Mismatched(1)
    /\ pc[1] = "Closed" /\ exit[1] = "dispatch_error" /\ written[1] = << >>
    /\ Len(written[2]) = 1

\* the moves of a handler goroutine: its start, the entry into run(), and the
\* moves of the pkg/kafka loop between two of its calls that block; decoding,
\* dispatching and encoding lie inside Handle, between the read of the body
\* and the Write
LoopMoves == { <<"none", "Start">>, <<"Start", "ReadingSize">>,
               <<"ReadingSize", "ReadingBody">>,
               <<"ReadingBody", "Writing">>, <<"Writing", "ReadingSize">> }

\* the return statements of run() by the stage of the loop they belong to
ExitsOf(p) ==
    CASE p = "ReadingSize" -> {"eof", "size_read_error", "size_short"}
      [] p = "ReadingBody" -> {"body_read_error", "body_short", "decode_error", "dispatch_error"}
      [] p = "Writing" -> {"write_error"}
      [] OTHER -> {}

\* C24: the pkg/kafka handler changes its position only along the cycle
\* ReadingSize, ReadingBody, (Handle: decoding, dispatching, encoding),
\* Writing, ReadingSize, or from one of these to Closed by a return of that
\* stage; in Closed it stays, and from then on nothing is read from or
\* written to the connection and it is not closed again.
C24_HandlerStateMachine ==
    [][kind = "kafka" =>
          \A g \in Conns :
              /\ pc'[g] # pc[g] =>
                     \/ <<pc[g], pc'[g]>> \in LoopMoves /\ exit'[g] = ""
                     \/ /\ pc'[g] = "Closed"
                        /\ exit'[g] \in ExitsOf(pc[g])
              /\ pc[g] = "Closed" =>
                     /\ pc'[g] = "Closed" /\ exit'[g] = exit[g]
                     /\ written'[g] = written[g] /\ closeCount'[g] = closeCount[g]
                     /\ nread'[g] = nread[g] /\ received'[g] = received[g]
                     /\ inbuf'[g] # inbuf[g] => cst'[g] = "reset"]_vars

\* the loop went once round the cycle and ended in the read of the second
\* body; the rest of that frame is never delivered
C24_Witness ==
    /\ kind = "kafka"
    /\ pc[1] = "Closed" /\ exit[1] = "body_short"
    /\ Len(written[1]) = 1 /\ nread[1] = 1
    /\ pendingOut[1] # << >>

\* length the prefix of the j-th frame the client of c sent declares
DeclaredLen(c, j) == Uint32(Take(Frame(sent[c][j].kind, sent[c][j].corr), SizeLen))

\* C25: every payload the pkg/kafka loop hands to Handle has the number of
\* bytes the length prefix read before it declared; and the step in which the
\* body Read returns without an error a number of bytes other than the
\* declared one ends the loop: Handle is not called, nothing is written and
\* the connection is closed.
C25_PayloadHasDeclaredLength ==
    /\ [](kind = "kafka" =>
            \A g \in Conns :
                \A i \in 1..Len(received[g]) :
                    i <= Len(sent[g]) /\ Len(received[g][i]) = DeclaredLen(g, i))
    /\ [][kind = "kafka" =>
             \A g \in Conns :
                 LET got == Len(inbuf[g]) - Len(inbuf'[g])
                 IN (pc[g] = "ReadingBody" /\ pc'[g] # "ReadingBody") =>
                        /\ received'[g] # received[g] =>
                               /\ got = reqSize[g]
                               /\ received'[g] = Append(received[g], Take(inbuf[g], reqSize[g]))
                               /\ Len(Take(inbuf[g], reqSize[g])) = reqSize[g]
                        /\ (ReadResult(g, reqSize[g]).err = "" /\ got # reqSize[g]) =>
                               /\ pc'[g] = "Closed" /\ exit'[g] = "body_short"
                               /\ received'[g] = received[g] /\ nread'[g] = nread[g]
                               /\ written'[g] = written[g]
                               /\ closeCount[g] = 0 /\ closeCount'[g] = 1]_vars

\* the Read of the first body returned fewer bytes than the prefix declared
C25_Witness ==
    /\ kind = "kafka"
    /\ pc[1] = "Closed" /\ exit[1] = "body_short"
    /\ reqSize[1] = ReqHeaderLen
    /\ received[1] = << >> /\ written[1] = << >>
    /\ closeCount[1] = 1

\* the client of c is connected and every frame it has begun is a well-formed
\* request with the ApiVersions key
OnlyGoodRequests(c) ==
    /\ cst[c] = "open"
    /\ sent[c] # << >>
    /\ \A j \in 1..Len(sent[c]) : sent[c][j].kind = "apiversions"

\* C26: while the client stays connected and sends only well-formed requests
\* with the registered key, no Read or Write fails and the pkg/kafka handler
\* does not end: a handler that has ended writes nothing more, so a request
\* the client has under way would never be answered.
C26_RequestEventuallyAnswered ==
    kind = "kafka" =>
        \A c \in Conns :
            OnlyGoodRequests(c) =>
                /\ exit[c] \notin {"size_read_error", "body_read_error", "write_error"}
                /\ pc[c] # "Closed"

\* length a response header declares, and the bytes of a frame after its prefix
DeclaredRespLen(header) == DecodeResponseHeader(header).Length

BytesAfterPrefix(header, body) == Len(header) - SizeLen + Len(body)

\* C27: in the pkg/server handler the length prefix of a response frame is
\* the number of bytes that follow it, the correlation identifier and the
\* body: for the frame about to be written, and for every frame written to a
\* client that is still connected (header and body are two Write calls).
C27_ResponseLengthPrefix ==
    kind = "server" =>
        \A g \in Conns :
            /\ pc[g] = "Writing" =>
                   DeclaredRespLen(encoded[g]) = BytesAfterPrefix(encoded[g], resp[g].raw)
            /\ (cst[g] = "open" /\ closeCount[g] = 0) =>
                   \A i \in 1..Len(written[g]) :
                       i % 2 = 0 =>
                           DeclaredRespLen(written[g][i - 1]) =
                               BytesAfterPrefix(written[g][i - 1], written[g][i])

\* C28: in the pkg/server handler a Write that fails (the step leaves the
\* header or body Write with nothing added to what was written) ends the
\* loop with the connection closed, and a loop that has left a failed Write
\* reads no further request.
C28_SrvWriteErrorCloses ==
    [][kind = "server" =>
          \A g \in Conns :
              (pc[g] \in {"Writing", "WritingBody"} /\ pc'[g] # pc[g]
                    /\ written'[g] = written[g]) =>
                  /\ pc'[g] = "Closed"
                  /\ closeCount'[g] = closeCount[g] + 1]_vars

\* C29: once the context of a handler is cancelled, the loop of run() makes
\* no further move along its cycle: the next change of its position is the
\* end of the loop, with the connection closed.
C29_CancelStopsLoop ==
    [][\A g \in Conns :
          (inst[g] # 0 /\ ctxDone[inst[g]] /\ pc[g] \in LoopPositions /\ pc'[g] # pc[g]) =>
              /\ pc'[g] = "Closed"
              /\ closeCount'[g] = closeCount[g] + 1]_vars

\* the body and the error HandleApiVersions returns for a decoded request
BodyFor(r) == HandleApiVersions(r.CorrelationID, r.ClientID, r.Body)

ErrFor(r) == HandleApiVersionsErr(r.CorrelationID, r.ClientID, r.Body)

\* the request goroutine g holds is one dispatch passes to HandleApiVersions
ForApiVersions(g) == req[g] # NoReq /\ req[g].Body.type = "ApiVersionsRequest"

\* C30: HandleApiVersions returns no error, and the same body whatever the
\* correlation identifier, the client identifier and the request are: two
\* handlers with different requests get equal bodies, a request passed to it
\* always has its response, and the step that produces the response of one
\* handler changes nothing of the other handler or of the server.
C30_ApiVersionsStatic ==
    /\ [](\A g \in Conns, h \in Conns :
            (ForApiVersions(g) /\ ForApiVersions(h)) =>
                /\ ErrFor(req[g]) = ""
                /\ BodyFor(req[g]) = BodyFor(req[h])
                /\ pc[g] # "Dispatching" => (resp[g] # NoReq /\ exit[g] # "dispatch_error")
                /\ (resp[g] # NoReq /\ resp[h] # NoReq) => resp[g].Body = resp[h].Body)
    /\ [][\A g \in Conns :
             resp'[g] # resp[g] =>
                 /\ UNCHANGED <<kind, shared, ctxDone, serverVars, connVars, req>>
                 /\ \A h \in Conns \ {g} :
                       /\ resp'[h] = resp[h] /\ encoded'[h] = encoded[h]
                       /\ pc'[h] = pc[h] /\ exit'[h] = exit[h]]_vars

\* both handlers have their responses, to requests that differ in correlation
\* identifier, client identifier and version
C30_Witness ==
    /\ ForApiVersions(1) /\ ForApiVersions(2)
    /\ req[1].CorrelationID # req[2].CorrelationID
    /\ req[1].ClientID # req[2].ClientID
    /\ req[1].Body.Version # req[2].Body.Version
    /\ resp[1] # NoReq /\ resp[2] # NoReq
    /\ resp[1].Body = resp[2].Body

\* the goroutine spawned for connection g is in run()
Running(g) == pc[g] \in {"ReadingSize", "ReadingBody", "Writing"}

\* C31: a handler is started on the connection it was accepted for, and every
\* step of the handler spawned for one connection reads bytes from, writes
\* to and closes that connection only, whether the factory builds a handler
\* per connection or returns the same handler for both.
C31_HandlerKeepsItsConnection ==
    [][\A g \in Conns :
          /\ (pc[g] = "Start" /\ pc'[g] # "Start") => hconn'[inst[g]] = g
          /\ (Running(g) /\ pc'[g] # pc[g]) =>
                \A c \in Conns \ {g} :
                    /\ inbuf'[c] = inbuf[c]
                    /\ written'[c] = written[c]
                    /\ closeCount'[c] = closeCount[c]]_vars

\* the Start call of server s has finished / its Stop call has returned
StartFinished(s) == startRet[s] # "none" /\ startPc[s] = "idle"

StopReturned(s) == stopRet[s] # "none" /\ stopPc[s] = "idle"

\* C32: in main, once the one Stop call has returned and the one Start call
\* has finished, no listening socket is open (so no accept loop can go on
\* accepting), in whatever order the steps of the two calls were taken.
C32_ShutdownClosesListener ==
    \A s \in Servers :
        (StartFinished(s) /\ StopReturned(s)) => \A l \in Listeners : lst[l] # "open"

\* a Stop call of server s returns in this step
StopReturns(s) ==
    \/ stopPc[s] = "closing" /\ stopPc'[s] = "idle"
    \/ stopPc[s] = "idle" /\ stopPc'[s] = "idle" /\ stopRet'[s] # stopRet[s]

\* C33: a Stop that finds the listener field set and whose Close succeeds
\* closes that listener, clears the field and returns no error; a Stop that
\* finds the field cleared returns no error and changes no socket, no accept
\* loop and no connection; a Stop whose Close fails returns the error and
\* leaves the field as it was.
C33_StopIdempotent ==
    [][\A s \in Servers :
          StopReturns(s) =>
              /\ stopRet'[s] \in {"ok", "noop", "error"}
              /\ stopRet'[s] = "ok" =>
                    /\ sl[s] # 0 /\ lst[sl[s]] = "open"
                    /\ lst'[sl[s]] = "closed"
                    /\ sl'[s] = 0
              /\ stopRet'[s] = "noop" =>
                    /\ sl[s] = 0
                    /\ UNCHANGED <<sl, lst, port, backlog, aloop, aconn, aexit, connVars>>
              /\ stopRet'[s] = "error" =>
                    /\ sl[s] # 0
                    /\ sl'[s] = sl[s]
              /\ sl[s] = 0 => stopRet'[s] = "noop"]_vars

\* after a successful Start a Stop has closed the listener and cleared the
\* field, and a later Stop has returned without an error
C33_Witness ==
    \E s \in Servers :
        /\ startRet[s] = "ok"
        /\ sl[s] = 0
        /\ \E l \in Listeners : lst[l] = "closed"
        /\ stopRet[s] = "noop" /\ stopPc[s] = "idle"

\* the accept loop of listener l ends on an accept error in this step
LoopFails(l) == lst[l] = "open" /\ aloop[l] = "accepting" /\ aloop'[l] = "exited"

\* C34: the step in which the accept loop ends on an accept error leaves its
\* listener open, bound to the address and held in the listener field; the
\* listener then stays open and in the field until a Stop closes it, and the
\* Stop that finds it closes it, clears the field and returns no error.
C34_StopAfterAcceptError ==
    [][\A l \in Listeners :
          /\ LoopFails(l) =>
                /\ aexit'[l] = "error"
                /\ lst'[l] = "open" /\ port' = port /\ port = l
                /\ \E s \in Servers : sl[s] = l /\ sl'[s] = l
          /\ (aexit[l] = "error" /\ lst[l] = "open") =>
                /\ \E s \in Servers : sl[s] = l
                /\ \A s \in Servers :
                      (sl[s] = l /\ stopPc[s] = "closing" /\ stopPc'[s] = "idle") =>
                          /\ stopRet'[s] = "ok"
                          /\ lst'[l] = "closed"
                          /\ sl'[s] = 0
                /\ lst'[l] = "closed" =>
                      \E s \in Servers : stopPc[s] = "closing" /\ stopRet'[s] = "ok"]_vars

\* the accept loop ended on an error and a later Stop closed the listener,
\* cleared the field and returned no error
C34_Witness ==
    \E l \in Listeners, s \in Servers :
        /\ aloop[l] = "exited" /\ aexit[l] = "error"
        /\ lst[l] = "closed"
        /\ sl[s] = 0
        /\ stopRet[s] = "ok" /\ stopPc[s] = "idle"

====
